---- MODULE Spec2Model ----
(***************************************************************************)
(* Model of app.py: the GET /summary handler (summary_api), the video-id   *)
(* extractor (get_video_id), the transcript fallback chain                 *)
(* (get_transcript, get_fallback_captions, translate_text) and the         *)
(* retrying summarizer (get_summary_gemini).                               *)
(*                                                                         *)
(* A Python str is a sequence of non-empty chunks; a chunk is one          *)
(* character (URLs, ids, caption words) or one literal of the source       *)
(* (message templates).  The empty str is <<>>, and "not s" is s = <<>>.   *)
(***************************************************************************)
EXTENDS Integers, Sequences, FiniteSets, TLC

\* ---------------------------------------------------------------- bounds
\* most caption segments in one fetched track
MaxSegs == 2
\* most tracks in one listing
MaxTracks == 2

\* ------------------------------------------------------- string helpers
RECURSIVE IndexFrom(_, _, _)
\* least index i >= from with s[i] = c, 0 when there is none (str.find + 1)
IndexFrom(s, c, from) ==
  IF from > Len(s) THEN 0
  ELSE IF s[from] = c THEN from
  ELSE IndexFrom(s, c, from + 1)

IndexOf(s, c) == IndexFrom(s, c, 1)

RECURSIVE Split(_, _)
\* str.split(c): the pieces of s between occurrences of c
Split(s, c) ==
  LET i == IndexOf(s, c)
  IN IF i = 0 THEN <<s>>
     ELSE <<SubSeq(s, 1, i - 1)>> \o Split(SubSeq(s, i + 1, Len(s)), c)

RECURSIVE Join(_)
\* ' '.join(parts)
Join(parts) ==
  IF Len(parts) = 0 THEN <<>>
  ELSE IF Len(parts) = 1 THEN parts[1]
  ELSE parts[1] \o <<" ">> \o Join(Tail(parts))

\* sub occurs in s as a contiguous run
Contains(s, sub) ==
  \E i \in 1..(Len(s) + 1) :
     /\ i + Len(sub) - 1 <= Len(s)
     /\ SubSeq(s, i, i + Len(sub) - 1) = sub

RECURSIVE SelectNonEmpty(_)
\* [t for t in texts if t]
SelectNonEmpty(texts) ==
  IF Len(texts) = 0 THEN <<>>
  ELSE IF Head(texts) = <<>> THEN SelectNonEmpty(Tail(texts))
  ELSE <<Head(texts)>> \o SelectNonEmpty(Tail(texts))

\* ---------------------------------------------------------- get_video_id
\* length of the id the short-link pattern captures: {11}
IdLen == 11

Lower == {"a","b","c","d","e","f","g","h","i","j","k","l","m",
          "n","o","p","q","r","s","t","u","v","w","x","y","z"}
Upper == {"A","B","C","D","E","F","G","H","I","J","K","L","M",
          "N","O","P","Q","R","S","T","U","V","W","X","Y","Z"}
Digit == {"0","1","2","3","4","5","6","7","8","9"}
\* the character class [a-zA-Z0-9_-]
IdChars == Lower \cup Upper \cup Digit \cup {"_", "-"}

\* the literal youtu\.be/ of the pattern
ShortLinkLit == <<"y","o","u","t","u",".","b","e","/">>

\* urlparse(url).query: the fragment is cut at the first '#', then the
\* query is what follows the first '?'
urlparse_query(url) ==
  LET h == IndexOf(url, "#")
      nofrag == IF h = 0 THEN url ELSE SubSeq(url, 1, h - 1)
      q == IndexOf(nofrag, "?")
  IN IF q = 0 THEN <<>> ELSE SubSeq(nofrag, q + 1, Len(nofrag))

\* the characters urlsplit accepts in a scheme
scheme_chars == Lower \cup Upper \cup Digit \cup {"+", "-", "."}

\* urlsplit: what follows the scheme and its ':', the whole url when the
\* text before the first ':' is not a scheme
after_scheme(url) ==
  LET i == IndexOf(url, ":")
  IN IF /\ i > 1
        /\ url[1] \in Lower \cup Upper
        /\ \A k \in 1..(i - 1) : url[k] \in scheme_chars
     THEN SubSeq(url, i + 1, Len(url))
     ELSE url

\* urlsplit: the network location, what stands between a leading '//' and
\* the first of '/', '?', '#'
netloc(url) ==
  LET r == after_scheme(url)
      stops == {i \in 3..Len(r) : r[i] \in {"/", "?", "#"}}
      stop == IF stops = {} THEN Len(r) + 1
              ELSE CHOOSE i \in stops : \A k \in stops : i <= k
  IN IF Len(r) >= 2 /\ r[1] = "/" /\ r[2] = "/"
     THEN SubSeq(r, 3, stop - 1)
     ELSE <<>>

\* urlparse raises ValueError("Invalid IPv6 URL"): the network location
\* has one of '[' and ']' without the other
urlparse_raises(url) ==
  (IndexOf(netloc(url), "[") # 0) # (IndexOf(netloc(url), "]") # 0)

\* unquote of parse_qsl on the characters of the model: '+' becomes ' '
unquote_plus(s) == [i \in 1..Len(s) |-> IF s[i] = "+" THEN " " ELSE s[i]]

RECURSIVE parse_pairs(_)
\* parse_qsl with keep_blank_values=False: a field without '=' or with
\* an empty value is dropped
parse_pairs(fields) ==
  IF Len(fields) = 0 THEN <<>>
  ELSE LET f == Head(fields)
           e == IndexOf(f, "=")
           rest == parse_pairs(Tail(fields))
       IN IF e = 0 \/ e = Len(f) THEN rest
          ELSE <<[name |-> unquote_plus(SubSeq(f, 1, e - 1)),
                  value |-> unquote_plus(SubSeq(f, e + 1, Len(f)))]>> \o rest

parse_qs(query) == parse_pairs(Split(query, "&"))

\* the start of the leftmost match of youtu\.be/([a-zA-Z0-9_-]{11}), or 0
re_search(url) ==
  LET L == Len(ShortLinkLit)
      hits == {i \in 1..Len(url) :
                 /\ i + L + IdLen - 1 <= Len(url)
                 /\ SubSeq(url, i, i + L - 1) = ShortLinkLit
                 /\ \A j \in (i + L)..(i + L + IdLen - 1) : url[j] \in IdChars}
  IN IF hits = {} THEN 0 ELSE CHOOSE i \in hits : \A k \in hits : i <= k

NoneId == [some |-> FALSE, val |-> <<>>]

\* params['v'][0] when 'v' in params
VParamValue(params) ==
  LET vs == {i \in 1..Len(params) : params[i].name = <<"v">>}
      first == CHOOSE i \in vs : \A k \in vs : i <= k
  IN [some |-> TRUE, val |-> params[first].value]

\* what get_video_id returns for a url that urlparse accepts
get_video_id(url) ==
  LET params == parse_qs(urlparse_query(url))
      m == re_search(url)
  IN IF \E i \in 1..Len(params) : params[i].name = <<"v">>
     THEN VParamValue(params)
     ELSE IF m # 0
     THEN [some |-> TRUE,
           val |-> SubSeq(url, m + Len(ShortLinkLit), m + Len(ShortLinkLit) + IdLen - 1)]
     ELSE NoneId

\* ------------------------------------------------------------ URL inputs
Id11  == <<"a","B","3","_","-","x","Y","z","0","9","k">>
Id12  == Id11 \o <<"Q">>
Id10  == SubSeq(Id11, 1, 10)
IdBad == <<"a","B","3","_","!","x","Y","z","0","9","k">>
Id3   == <<"a","+","c">>
IdSamples == {Id11, Id12, Id10, IdBad}

WatchHost == <<"y","t",".","c","o","/","w">>

HostSamples == { ShortLinkLit,
                 <<"y","o","u","t","u","x","b","e","/">>,
                 WatchHost }

QuerySamples ==
  {<<>>, <<"?","v">>, <<"#","?","v","=","z">>,
   <<"?","t","=","1","&","v","=","&","v","=","q">>}
  \cup {<<"?","v","=">> \o i : i \in {Id11, Id3, <<>>}}

\* urls with a square bracket: two that urlparse rejects, one with the
\* bracket in the path
BracketSamples ==
  { <<"/","/","[">> \o WatchHost \o <<"?","v","=">> \o Id11,
    <<"h",":","/","/","]">> \o ShortLinkLit \o Id11,
    <<"/","/","x","/","[">> }

URLs == {h \o p : h \in HostSamples, p \in IdSamples}
        \cup {h \o q : h \in {WatchHost, ShortLinkLit \o Id11}, q \in QuerySamples}
        \cup BracketSamples

\* ------------------------------------------------------------ exceptions
\* the classes of youtube_transcript_api._errors the source imports, one
\* further subclass of CouldNotRetrieveTranscript, and the classes raised by
\* requests, json and ElementTree
Parent(cls) ==
  CASE cls = "NoTranscriptFound" -> "CouldNotRetrieveTranscript"
    [] cls = "TranscriptsDisabled" -> "CouldNotRetrieveTranscript"
    [] cls = "VideoUnavailable" -> "CouldNotRetrieveTranscript"
    [] cls = "CouldNotRetrieveTranscript" -> "Exception"
    [] cls = "HTTPError" -> "Exception"
    [] cls = "ConnectionError" -> "Exception"
    [] cls = "JSONDecodeError" -> "Exception"
    [] cls = "IndexError" -> "Exception"
    [] cls = "ParseError" -> "Exception"
    [] OTHER -> "object"

RECURSIVE IsA(_, _)
\* isinstance(e, base) for an exception e of class cls
IsA(cls, base) ==
  IF cls = base THEN TRUE
  ELSE IF cls = "Exception" \/ Parent(cls) = "object" THEN FALSE
  ELSE IsA(Parent(cls), base)

\* str(e) of an exception raised by a library: its detail, opaque here
LibMsg(cls) == <<cls>>

\* ------------------------------------------------------ upstream answers
SegTexts == {<<>>, <<"a">>, <<"b">>}

RECURSIVE SeqsUpTo(_, _)
\* the sequences over S of length at most n
SeqsUpTo(S, n) ==
  IF n = 0 THEN {<<>>}
  ELSE LET shorter == SeqsUpTo(S, n - 1)
       IN shorter \cup {Append(q, x) : q \in shorter, x \in S}

SegLists == SeqsUpTo(SegTexts, MaxSegs)

\* YouTubeTranscriptApi.get_transcript / transcript.fetch()
FetchOutcomes ==
  {[kind |-> "ok", segs |-> sl, cls |-> "-"] : sl \in SegLists}
  \cup {[kind |-> "raise", segs |-> <<>>, cls |-> c] :
          c \in {"NoTranscriptFound", "TranscriptsDisabled",
                 "VideoUnavailable", "ConnectionError"}}

Tracks == {[language_code |-> "en", language |-> <<"English">>],
           [language_code |-> "fr", language |-> <<"French">>],
           [language_code |-> "de", language |-> <<"German">>]}

\* YouTubeTranscriptApi.list_transcripts
ListOutcomes ==
  {[kind |-> "ok", tracks |-> tl, cls |-> "-"] : tl \in SeqsUpTo(Tracks, MaxTracks)}
  \cup {[kind |-> "raise", tracks |-> <<>>, cls |-> c] :
          c \in {"TranscriptsDisabled", "VideoUnavailable", "ConnectionError"}}

\* requests.get of the timedtext endpoint: blank is "response.text.strip()
\* is empty", wellformed is "ET.fromstring accepts it", nodes are the .text
\* of root.findall('text') (<<>> for None or '')
ScrapeBodies ==
  {[blank |-> TRUE, wellformed |-> FALSE, nodes |-> <<>>],
   [blank |-> FALSE, wellformed |-> FALSE, nodes |-> <<>>]}
  \cup {[blank |-> FALSE, wellformed |-> TRUE, nodes |-> n] : n \in SegLists}

ScrapeOutcomes ==
  {[kind |-> "error", status |-> 0, body |-> [blank |-> TRUE, wellformed |-> FALSE, nodes |-> <<>>]]}
  \cup {[kind |-> "response", status |-> st, body |-> b] :
          st \in {200, 404}, b \in ScrapeBodies}

\* bodies of the generation service: isjson is "response.json() accepts
\* it"; val is the decoded object, a dict being a record (the empty dict
\* and the empty list are both <<>>)
GenTexts == {<<>>, <<"s">>}

JsonBodies ==
  {[isjson |-> FALSE, val |-> <<>>],
   [isjson |-> TRUE, val |-> <<>>],
   [isjson |-> TRUE, val |-> [candidates |-> <<>>]],
   [isjson |-> TRUE, val |-> [candidates |-> << <<>> >>]],
   [isjson |-> TRUE, val |-> [candidates |-> <<[content |-> <<>>]>>]],
   [isjson |-> TRUE, val |-> [candidates |-> <<[content |-> [parts |-> <<>>]]>>]],
   [isjson |-> TRUE, val |-> [candidates |-> <<[content |-> [parts |-> << <<>> >>]]>>]]}
  \cup {[isjson |-> TRUE, val |-> [candidates |-> <<[content |-> [parts |-> <<[text |-> t]>>]]>>]] :
          t \in GenTexts}

\* bodies that come with an HTTP error status: not JSON, or an error object
ErrorBodies ==
  {[isjson |-> FALSE, val |-> <<>>],
   [isjson |-> TRUE, val |-> [error |-> <<"e">>]]}

\* requests.post to GEMINI_URL
PostOutcomes ==
  {[kind |-> "error", status |-> 0, body |-> [isjson |-> FALSE, val |-> <<>>]]}
  \cup {[kind |-> "response", status |-> st, body |-> b] :
          st \in {400, 429, 500, 503}, b \in ErrorBodies}
  \cup {[kind |-> "response", status |-> 200, body |-> b] : b \in JsonBodies}

\* dict.get(k, default)
Get(d, k, default) == IF k \in DOMAIN d THEN d[k] ELSE default

\* result.get('candidates', [{}])[0].get('content', {})
\*       .get('parts', [{}])[0].get('text', default)
ExtractText(result, default) ==
  LET cands == Get(result, "candidates", << <<>> >>)
  IN IF Len(cands) = 0 THEN [ok |-> FALSE, val |-> <<>>]
     ELSE LET content == Get(cands[1], "content", <<>>)
              parts == Get(content, "parts", << <<>> >>)
          IN IF Len(parts) = 0 THEN [ok |-> FALSE, val |-> <<>>]
             ELSE [ok |-> TRUE, val |-> Get(parts[1], "text", default)]

\* ----------------------------------------------------------------- state
VARIABLES
  pc,            \* position of the request in summary_api and its callees
  url,           \* request.args.get('url', '')
  video_id,      \* result of get_video_id
  calls,         \* outbound calls made so far, in order
  failures,      \* failures of outbound transcript calls, in order
  won,           \* the acquisition strategy that succeeded, "none" before
  callsAtWin,    \* calls at the moment a strategy succeeded
  listing,       \* transcripts, the tracks list_transcripts returned; a
                 \* local of get_transcript, <<>> again once it has ended
  track,         \* the track chosen by the loop of get_transcript
  foreign_segs,  \* the segment texts transcript.fetch() returned; a
                 \* local of get_transcript, <<>> again once it has ended
  foreign_text,  \* the joined text of that track
  tr_args,       \* the arguments of the translate_text calls, in order
  tr_fail,       \* how the request of translate_text failed, "none" if not
  sm_calls,      \* number of calls of get_summary_gemini
  gt,            \* how get_transcript ended
  fb,            \* how get_fallback_captions ended
  tr,            \* how translate_text ended
  attempt,       \* loop variable of get_summary_gemini
  delay,         \* delay of get_summary_gemini
  sleeps,        \* arguments of time.sleep, in order
  response,      \* the latest answer of requests.get / requests.post
  sm,            \* how get_summary_gemini ended
  status,        \* HTTP status of the response, 0 before
  body           \* JSON body of the response

vars == <<pc, url, video_id, calls, failures, won, callsAtWin, listing,
          track, foreign_segs, foreign_text, tr_args, tr_fail, sm_calls, gt,
          fb, tr, attempt, delay, sleeps, response, sm, status, body>>

\* retries, delay = 5, 2
Retries == 5
InitialDelay == 2

NoOutcome == [kind |-> "none", cls |-> "-", val |-> <<>>]
Returned(v) == [kind |-> "return", cls |-> "-", val |-> v]
Raised(c, m) == [kind |-> "raise", cls |-> c, val |-> m]
NoTrack == [language_code |-> "-", language |-> <<>>]
NoResponse == [kind |-> "none", status |-> 0, body |-> <<>>]

Init ==
  /\ pc = "start"
  /\ url = <<>>
  /\ video_id = NoneId
  /\ calls = <<>>
  /\ failures = <<>>
  /\ won = "none"
  /\ callsAtWin = <<>>
  /\ listing = <<>>
  /\ track = NoTrack
  /\ foreign_segs = <<>>
  /\ foreign_text = <<>>
  /\ tr_args = <<>>
  /\ tr_fail = "none"
  /\ sm_calls = 0
  /\ gt = NoOutcome
  /\ fb = NoOutcome
  /\ tr = NoOutcome
  /\ attempt = 0
  /\ delay = InitialDelay
  /\ sleeps = <<>>
  /\ response = NoResponse
  /\ sm = NoOutcome
  /\ status = 0
  /\ body = [key |-> "none", val |-> <<>>]

\* ----------------------------------------------------------- summary_api
\* request.args of the model: no argument at all, or a url argument
RequestArgs == {<<>>} \cup {[url |-> u] : u \in URLs \cup {<<>>}}

\* request.args.get(k, default)
args_get(args, k, default) == IF k \in DOMAIN args THEN args[k] ELSE default

\* the except clauses of summary_api: the status for an exception class
EndpointStatus(cls) ==
  IF \/ IsA(cls, "NoTranscriptFound")
     \/ IsA(cls, "TranscriptsDisabled")
     \/ IsA(cls, "CouldNotRetrieveTranscript")
  THEN 404
  ELSE 500

GenericError == <<"Internal error occurred. Ensure video has English captions.">>

\* an exception of class cls and message msg reaches the try of summary_api
Respond(cls, msg) ==
  /\ pc' = "done"
  /\ status' = EndpointStatus(cls)
  /\ body' = [key |-> "error",
              val |-> IF EndpointStatus(cls) = 404 THEN msg ELSE GenericError]

\* an exception leaves summary_api: the framework answers 500 with its own
\* page
Unhandled(cls) ==
  /\ pc' = "done"
  /\ status' = 500
  /\ body' = [key |-> "unhandled", val |-> <<cls>>]

\* get_transcript raises
GtRaise(cls, msg) ==
  /\ gt' = Raised(cls, msg)
  /\ Respond(cls, msg)
  /\ UNCHANGED sm_calls

\* GtReturn without the "if not transcript" check
GtReturnNoEmptyCheck(t) ==
  /\ gt' = Returned(t)
  /\ pc' = "summarize"
  /\ sm_calls' = sm_calls + 1
  /\ UNCHANGED <<status, body>>

\* get_transcript returns t: "if not transcript" and the step to the
\* summarizer
GtReturn(t) ==
  /\ gt' = Returned(t)
  /\ IF t = <<>>
     THEN /\ pc' = "done"
          /\ status' = 404
          /\ body' = [key |-> "error", val |-> <<"Transcript is empty.">>]
          /\ UNCHANGED sm_calls
     ELSE /\ pc' = "summarize"
          /\ sm_calls' = sm_calls + 1
          /\ UNCHANGED <<status, body>>

\* Receive without the "if not video_id" check
ReceiveNoIdCheck(args) ==
  /\ pc = "start"
  /\ url' = args_get(args, "url", <<>>)
  /\ IF url' = <<>>
     THEN /\ pc' = "done"
          /\ status' = 400
          /\ body' = [key |-> "error", val |-> <<"No URL provided.">>]
          /\ UNCHANGED video_id
     ELSE IF urlparse_raises(url')
     THEN Unhandled("ValueError") /\ UNCHANGED video_id
     ELSE /\ video_id' = get_video_id(url')
          /\ pc' = "fetch_en"
          /\ UNCHANGED <<status, body>>
  /\ UNCHANGED <<calls, failures, won, callsAtWin, listing, track,
                 foreign_segs, foreign_text, tr_args, tr_fail, sm_calls, gt,
                 fb, tr, attempt, delay, sleeps, response, sm>>

\* the request arrives with query arguments args: url check,
\* get_video_id (called outside the try, so a ValueError of urlparse
\* leaves summary_api), video_id check
Receive(args) ==
  /\ pc = "start"
  /\ url' = args_get(args, "url", <<>>)
  /\ IF url' = <<>>
     THEN /\ pc' = "done"
          /\ status' = 400
          /\ body' = [key |-> "error", val |-> <<"No URL provided.">>]
          /\ UNCHANGED video_id
     ELSE IF urlparse_raises(url')
     THEN Unhandled("ValueError") /\ UNCHANGED video_id
     ELSE /\ video_id' = get_video_id(url')
          /\ IF ~video_id'.some \/ video_id'.val = <<>>
             THEN /\ pc' = "done"
                  /\ status' = 400
                  /\ body' = [key |-> "error", val |-> <<"Invalid YouTube URL format.">>]
             ELSE /\ pc' = "fetch_en"
                  /\ UNCHANGED <<status, body>>
  /\ UNCHANGED <<calls, failures, won, callsAtWin, listing, track,
                 foreign_segs, foreign_text, tr_args, tr_fail, sm_calls, gt,
                 fb, tr, attempt, delay, sleeps, response, sm>>

\* -------------------------------------------------------- get_transcript
\* PreferredNext with an empty preferred track treated as a failure
PreferredNextFallsThrough(o) ==
  IF o.kind = "ok" THEN (IF o.segs = <<>> THEN "aen" ELSE "return")
  ELSE IF IsA(o.cls, "NoTranscriptFound") THEN "aen"
  ELSE IF IsA(o.cls, "TranscriptsDisabled") THEN "scrape"
  ELSE IF IsA(o.cls, "CouldNotRetrieveTranscript") THEN "wrap"
  ELSE "propagate"

\* which clause of the outer try takes the outcome of the preferred fetch
PreferredNext(o) ==
  IF o.kind = "ok" THEN "return"
  ELSE IF IsA(o.cls, "NoTranscriptFound") THEN "aen"
  ELSE IF IsA(o.cls, "TranscriptsDisabled") THEN "scrape"
  ELSE IF IsA(o.cls, "CouldNotRetrieveTranscript") THEN "wrap"
  ELSE "propagate"

\* which clause of the inner try takes the outcome of the auto-generated
\* fetch; what the inner handlers raise is raised inside the handler of the
\* outer try, so no clause of the outer try sees it
AutoNext(o) ==
  IF o.kind = "ok" THEN "return"
  ELSE IF IsA(o.cls, "NoTranscriptFound") THEN "list"
  ELSE IF IsA(o.cls, "Exception") THEN "wrap"
  ELSE "propagate"

\* f"Transcript retrieval error: {str(e)}"
RetrievalErrorMsg(m) == <<"Transcript retrieval error: ">> \o m

\* f"Transcript Error: Could not retrieve transcript for video (ID: {video_id}). Reason: {str(e)}"
TranscriptErrorMsg(vid, m) ==
  <<"Transcript Error: Could not retrieve transcript for video (ID: ">>
    \o vid \o <<"). Reason: ">> \o m

\* the first strategy to succeed is remembered with the calls made by then
Win(strategy) ==
  IF won = "none"
  THEN won' = strategy /\ callsAtWin' = calls'
  ELSE UNCHANGED <<won, callsAtWin>>

Failed(step, o) ==
  IF o.kind = "raise" THEN Append(failures, [step |-> step, cls |-> o.cls])
  ELSE failures

\* YouTubeTranscriptApi.get_transcript(video_id, languages=['en'])
FetchEn(o) ==
  /\ pc = "fetch_en"
  /\ calls' = Append(calls, "fetch_en")
  /\ failures' = Failed("fetch_en", o)
  /\ IF o.kind = "ok"
     THEN Win("en")
     ELSE UNCHANGED <<won, callsAtWin>>
  /\ CASE PreferredNext(o) = "return" -> GtReturn(Join(o.segs))
       [] PreferredNext(o) = "aen" ->
            pc' = "fetch_aen" /\ UNCHANGED <<gt, status, body, sm_calls>>
       [] PreferredNext(o) = "scrape" ->
            pc' = "scrape" /\ UNCHANGED <<gt, status, body, sm_calls>>
       [] PreferredNext(o) = "wrap" ->
            GtRaise("CouldNotRetrieveTranscript",
                    TranscriptErrorMsg(video_id.val, LibMsg(o.cls)))
       [] OTHER -> GtRaise(o.cls, LibMsg(o.cls))
  /\ UNCHANGED <<url, video_id, listing, track, foreign_segs, foreign_text,
                 tr_args, tr_fail, fb, tr, attempt, delay, sleeps, response,
                 sm>>

\* YouTubeTranscriptApi.get_transcript(video_id, languages=['a.en'])
FetchAEn(o) ==
  /\ pc = "fetch_aen"
  /\ calls' = Append(calls, "fetch_aen")
  /\ failures' = Failed("fetch_aen", o)
  /\ IF o.kind = "ok"
     THEN Win("aen")
     ELSE UNCHANGED <<won, callsAtWin>>
  /\ CASE AutoNext(o) = "return" -> GtReturn(Join(o.segs))
       [] AutoNext(o) = "list" ->
            pc' = "list" /\ UNCHANGED <<gt, status, body, sm_calls>>
       [] AutoNext(o) = "wrap" ->
            GtRaise("Exception", RetrievalErrorMsg(LibMsg(o.cls)))
       [] OTHER -> GtRaise(o.cls, LibMsg(o.cls))
  /\ UNCHANGED <<url, video_id, listing, track, foreign_segs, foreign_text,
                 tr_args, tr_fail, fb, tr, attempt, delay, sleeps, response,
                 sm>>

\* FirstForeign taking the last track with language_code != 'en'
LastForeign(tracks) ==
  LET f == {i \in 1..Len(tracks) : tracks[i].language_code # "en"}
  IN IF f = {} THEN 0 ELSE CHOOSE i \in f : \A k \in f : i >= k

\* the index of the first track with language_code != 'en', 0 if none
FirstForeign(tracks) ==
  LET f == {i \in 1..Len(tracks) : tracks[i].language_code # "en"}
  IN IF f = {} THEN 0 ELSE CHOOSE i \in f : \A k \in f : i <= k

\* YouTubeTranscriptApi.list_transcripts(video_id) and the for loop up to
\* the first track it takes
ListTranscripts(o) ==
  /\ pc = "list"
  /\ calls' = Append(calls, "list")
  /\ failures' = Failed("list", o)
  /\ IF o.kind = "raise"
     THEN GtRaise(o.cls, LibMsg(o.cls)) /\ UNCHANGED <<listing, track>>
     ELSE /\ UNCHANGED <<gt, status, body, sm_calls>>
          /\ listing' = o.tracks
          /\ IF FirstForeign(o.tracks) # 0
             THEN pc' = "foreign_fetch" /\ track' = o.tracks[FirstForeign(o.tracks)]
             ELSE pc' = "scrape" /\ UNCHANGED track
  /\ UNCHANGED <<url, video_id, won, callsAtWin, foreign_segs, foreign_text,
                 tr_args, tr_fail, fb, tr, attempt, delay, sleeps, response,
                 sm>>

\* transcript.fetch() of the chosen track
ForeignFetch(o) ==
  /\ pc = "foreign_fetch"
  /\ calls' = Append(calls, "foreign_fetch")
  /\ failures' = Failed("foreign_fetch", o)
  /\ IF o.kind = "raise"
     THEN /\ GtRaise(o.cls, LibMsg(o.cls))
          /\ listing' = <<>>
          /\ UNCHANGED <<foreign_segs, foreign_text>>
     ELSE /\ foreign_segs' = o.segs
          /\ UNCHANGED listing
          /\ foreign_text' = Join(o.segs)
          /\ pc' = "translate"
          /\ UNCHANGED <<gt, status, body, sm_calls>>
  /\ UNCHANGED <<url, video_id, won, callsAtWin, track, tr_args, tr_fail,
                 fb, tr, attempt, delay, sleeps, response, sm>>

\* ------------------------------------------------- get_fallback_captions
\* f"No transcripts or captions available for video {video_id}."
NoCaptionsMsg(vid) ==
  <<"No transcripts or captions available for video ">> \o vid \o <<".">>

\* f"Fallback captions failed for video {video_id}: {str(e)}"
FallbackFailedMsg(vid, m) ==
  <<"Fallback captions failed for video ">> \o vid \o <<": ">> \o m

\* the body of get_fallback_captions on the answer o of requests.get; the
\* raise of the else branch is inside the try, so the except clause wraps it
get_fallback_captions(vid, o) ==
  IF o.kind = "error"
  THEN Raised("NoTranscriptFound", FallbackFailedMsg(vid, LibMsg("ConnectionError")))
  ELSE IF o.status = 200 /\ ~o.body.blank
  THEN IF o.body.wellformed
       THEN Returned(Join(SelectNonEmpty(o.body.nodes)))
       ELSE Raised("NoTranscriptFound", FallbackFailedMsg(vid, LibMsg("ParseError")))
  ELSE Raised("NoTranscriptFound", FallbackFailedMsg(vid, NoCaptionsMsg(vid)))

\* return get_fallback_captions(video_id), from either place of get_transcript
Scrape(o) ==
  /\ pc = "scrape"
  /\ calls' = Append(calls, "scrape")
  /\ response' = o
  /\ fb' = get_fallback_captions(video_id.val, o)
  /\ IF fb'.kind = "return"
     THEN /\ GtReturn(fb'.val)
          /\ Win("scrape")
          /\ UNCHANGED failures
     ELSE /\ GtRaise(fb'.cls, fb'.val)
          /\ failures' = Append(failures, [step |-> "scrape", cls |-> fb'.cls])
          /\ UNCHANGED <<won, callsAtWin>>
  /\ listing' = <<>>
  /\ UNCHANGED <<url, video_id, track, foreign_segs, foreign_text, tr_args,
                 tr_fail, tr, attempt, delay, sleeps, sm>>

\* -------------------------------------------------------- translate_text
\* f"Translation failed: {str(e)}"
TranslationFailedMsg(m) == <<"Translation failed: ">> \o m

\* translate_text without response.raise_for_status()
translate_textNoRaiseForStatus(text, o) ==
  IF o.kind = "error"
  THEN Returned(TranslationFailedMsg(LibMsg("ConnectionError")))
  ELSE IF ~o.body.isjson
  THEN Returned(TranslationFailedMsg(LibMsg("JSONDecodeError")))
  ELSE IF ~ExtractText(o.body.val, text).ok
  THEN Returned(TranslationFailedMsg(LibMsg("IndexError")))
  ELSE Returned(ExtractText(o.body.val, text).val)

\* translate_text letting a failure of requests.post escape
translate_textRaisesOnNetworkError(text, o) ==
  IF o.kind = "error"
  THEN Raised("ConnectionError", LibMsg("ConnectionError"))
  ELSE IF o.status >= 400
  THEN Returned(TranslationFailedMsg(LibMsg("HTTPError")))
  ELSE IF ~o.body.isjson
  THEN Returned(TranslationFailedMsg(LibMsg("JSONDecodeError")))
  ELSE IF ~ExtractText(o.body.val, text).ok
  THEN Returned(TranslationFailedMsg(LibMsg("IndexError")))
  ELSE Returned(ExtractText(o.body.val, text).val)

\* the body of translate_text on the answer o of its one requests.post
translate_text(text, o) ==
  IF o.kind = "error"
  THEN Returned(TranslationFailedMsg(LibMsg("ConnectionError")))
  ELSE IF o.status >= 400
  THEN Returned(TranslationFailedMsg(LibMsg("HTTPError")))
  ELSE IF ~o.body.isjson
  THEN Returned(TranslationFailedMsg(LibMsg("JSONDecodeError")))
  ELSE IF ~ExtractText(o.body.val, text).ok
  THEN Returned(TranslationFailedMsg(LibMsg("IndexError")))
  ELSE Returned(ExtractText(o.body.val, text).val)

\* how the request behind the answer o failed: no answer, an HTTP error
\* status, a body that is not JSON, an empty candidates or parts list, an
\* absent key on the way to the text; "none" when the text is there
RequestFailure(o) ==
  IF o.kind = "error" THEN "network"
  ELSE IF o.status >= 400 THEN "http"
  ELSE IF ~o.body.isjson THEN "notjson"
  ELSE IF ~ExtractText(o.body.val, <<"absent">>).ok THEN "emptylist"
  ELSE IF ExtractText(o.body.val, <<"absent">>).val = <<"absent">> THEN "missingkey"
  ELSE "none"

\* return translate_text(foreign_text, transcript.language)
TranslatePost(o) ==
  /\ pc = "translate"
  /\ calls' = Append(calls, "translate_post")
  /\ response' = o
  /\ tr_args' = Append(tr_args, [text |-> foreign_text, source_lang |-> track.language])
  /\ tr_fail' = RequestFailure(o)
  /\ tr' = translate_text(foreign_text, o)
  /\ IF tr'.kind = "return"
     THEN /\ GtReturn(tr'.val)
          /\ Win("foreign")
     ELSE /\ GtRaise(tr'.cls, tr'.val)
          /\ UNCHANGED <<won, callsAtWin>>
  /\ listing' = <<>>
  /\ foreign_segs' = <<>>
  /\ UNCHANGED <<url, video_id, failures, track, foreign_text, fb, attempt,
                 delay, sleeps, sm>>

\* ---------------------------------------------------- get_summary_gemini
\* Retryable with every HTTP error status retried
RetryableAnyError(st) == st >= 400

\* response.status_code in [429, 500, 503]
Retryable(st) == st \in {429, 500, 503}

\* NextDelay with a linear step
NextDelayLinear(d) == d + 2

\* delay *= 2
NextDelay(d) == d * 2

\* MayRetry with the attempt bound off by one
MayRetryOffByOne(st, a) == Retryable(st) /\ a < Retries

\* response.status_code in [429, 500, 503] and attempt < retries - 1
MayRetry(st, a) == Retryable(st) /\ a < Retries - 1

SmRaise(msg) ==
  /\ sm' = Raised("Exception", msg)
  /\ Respond("Exception", msg)

\* return jsonify({"summary": summary}), 200
SmReturn(v) ==
  /\ sm' = Returned(v)
  /\ pc' = "done"
  /\ status' = 200
  /\ body' = [key |-> "summary", val |-> v]

\* one iteration of the for loop of get_summary_gemini on the answer o of
\* requests.post, with what follows the loop when it was the last one
SummarizePost(o) ==
  /\ pc = "summarize"
  /\ attempt < Retries
  /\ calls' = Append(calls, "summarize_post")
  /\ response' = o
  /\ IF o.kind = "error"
     THEN /\ SmRaise(<<"Gemini API call failed: ">> \o LibMsg("ConnectionError"))
          /\ UNCHANGED <<attempt, delay, sleeps>>
     ELSE IF o.status >= 400
     THEN IF MayRetry(o.status, attempt)
          THEN /\ sleeps' = Append(sleeps, delay)
               /\ delay' = NextDelay(delay)
               /\ attempt' = attempt + 1
               /\ IF attempt + 1 < Retries
                  THEN UNCHANGED <<pc, sm, status, body>>
                  ELSE SmReturn(<<"Summary generation failed.">>)
          ELSE /\ SmRaise(<<"Gemini API error: ">> \o LibMsg("HTTPError"))
               /\ UNCHANGED <<attempt, delay, sleeps>>
     ELSE IF ~o.body.isjson
     THEN /\ SmRaise(<<"Gemini API call failed: ">> \o LibMsg("JSONDecodeError"))
          /\ UNCHANGED <<attempt, delay, sleeps>>
     ELSE IF ~ExtractText(o.body.val, <<"Summary failed.">>).ok
     THEN /\ SmRaise(<<"Gemini API call failed: ">> \o LibMsg("IndexError"))
          /\ UNCHANGED <<attempt, delay, sleeps>>
     ELSE /\ SmReturn(ExtractText(o.body.val, <<"Summary failed.">>).val)
          /\ UNCHANGED <<attempt, delay, sleeps>>
  /\ UNCHANGED <<url, video_id, failures, won, callsAtWin, listing, track,
                 foreign_segs, foreign_text, tr_args, tr_fail, sm_calls, gt,
                 fb, tr>>

\* ------------------------------------------------------- specification
Next ==
  \/ \E a \in RequestArgs : Receive(a)
  \/ \E o \in FetchOutcomes : FetchEn(o)
  \/ \E o \in FetchOutcomes : FetchAEn(o)
  \/ \E o \in ListOutcomes : ListTranscripts(o)
  \/ \E o \in FetchOutcomes : ForeignFetch(o)
  \/ \E o \in ScrapeOutcomes : Scrape(o)
  \/ \E o \in PostOutcomes : TranslatePost(o)
  \/ \E o \in PostOutcomes : SummarizePost(o)

Spec == Init /\ [][Next]_vars

\* every outbound call eventually returns or fails, and the handler takes
\* its next step when it has one
FairSpec == Spec /\ WF_vars(Next)

TypeOK ==
  /\ pc \in {"start", "fetch_en", "fetch_aen", "list", "foreign_fetch",
             "translate", "scrape", "summarize", "done"}
  /\ status \in {0, 200, 400, 404, 500}
  /\ attempt \in 0..Retries
  /\ (pc = "done") = (status # 0)

\* ---------------------------------------------------------------- claims
Count(q, x) == Cardinality({i \in 1..Len(q) : q[i] = x})
Last(q) == q[Len(q)]
UpstreamSteps == {"fetch_en", "fetch_aen", "list", "foreign_fetch"}
ended == pc = "done"

\* C1: when get_transcript ends with a failure whose cause is a
\* transcript-related failure (no transcript, disabled, retrieval error of
\* the transcript service, failed scrape), the response is 404 and its
\* error body is the failure's message; it is never 500.
C1_TranscriptFailureIs404 ==
  (/\ ended
   /\ gt.kind = "raise"
   /\ failures # <<>>
   /\ IsA(Last(failures).cls, "CouldNotRetrieveTranscript"))
  => (status = 404 /\ body = [key |-> "error", val |-> gt.val])

\* C2: after 'transcripts disabled' from any upstream step before the
\* scrape, the next outbound call is the fallback scrape, and
\* get_transcript does not end with the disabled error.
C2_DisabledGoesToScrape ==
  \A i \in 1..Len(failures) :
    (failures[i].cls = "TranscriptsDisabled" /\ failures[i].step \in UpstreamSteps)
    => /\ \/ pc = "scrape"
          \/ \E k \in 1..(Len(calls) - 1) :
                calls[k] = failures[i].step /\ calls[k + 1] = "scrape"
       /\ ~(gt.kind = "raise" /\ gt.val = LibMsg("TranscriptsDisabled"))
       /\ ~(gt.kind = "raise" /\ Contains(gt.val, LibMsg("TranscriptsDisabled")))

Posts == Count(calls, "summarize_post")

\* C3: get_summary_gemini posts at most 5 times; a further attempt is
\* pending only after a response with status 429, 500 or 503; a network
\* failure or another HTTP error status ends the call with an error at
\* once; the 5th retryable failure ends the call with an error.
C3_RetryPolicy ==
  /\ Posts <= Retries
  /\ (pc = "summarize" /\ Posts > 0)
       => (response.kind = "response" /\ response.status \in {429, 500, 503})
  /\ (Posts > 0 /\ (response.kind = "error"
                    \/ (response.status >= 400 /\ response.status \notin {429, 500, 503})))
       => (sm.kind = "raise" /\ ended)
  /\ (Posts = Retries /\ response.kind = "response" /\ response.status >= 400)
       => (sm.kind = "raise" /\ ended)
  /\ (sm.kind = "raise") => (status = 500)

\* five retryable failures in a row, and the call has raised
C3_Witness ==
  /\ Posts = Retries
  /\ response.status \in {429, 500, 503}
  /\ sm.kind = "raise"
  /\ Len(sleeps) = Retries - 1

Rank(c) ==
  CASE c = "fetch_en" -> 1
    [] c = "fetch_aen" -> 2
    [] c = "list" -> 3
    [] c = "foreign_fetch" -> 4
    [] c = "translate_post" -> 5
    [] c = "scrape" -> 6
    [] OTHER -> 7

FetcherCalls == SelectSeq(calls, LAMBDA c : Rank(c) < 7)

\* C4: the calls of one get_transcript come in the order preferred fetch,
\* auto-generated fetch, listing, foreign fetch, Translator, scrape, each
\* at most once, beginning with the preferred fetch; once a strategy has
\* succeeded no further call of the chain is made.
C4_OrderedStopAtFirstSuccess ==
  /\ \A i, j \in 1..Len(FetcherCalls) :
        i < j => Rank(FetcherCalls[i]) < Rank(FetcherCalls[j])
  /\ FetcherCalls # <<>> => FetcherCalls[1] = "fetch_en"
  /\ Count(calls, "fetch_aen") > 0 => Count(calls, "fetch_en") > 0
  /\ won # "none" => FetcherCalls = callsAtWin
  /\ won = "en" => FetcherCalls = <<"fetch_en">>
  /\ won = "aen" => FetcherCalls = <<"fetch_en", "fetch_aen">>
  /\ (won \in {"en", "aen", "scrape"}) => Count(calls, "translate_post") = 0
  /\ (won = "foreign") => Count(calls, "scrape") = 0

\* the auto-generated fetch succeeded after the preferred one failed, and
\* the request went on through the summarizer to its response
C4_Witness ==
  /\ won = "aen"
  /\ ended
  /\ Posts > 0
  /\ FetcherCalls = <<"fetch_en", "fetch_aen">>

ScrapeUnusable(r) ==
  \/ r.kind = "error"
  \/ r.status # 200
  \/ r.body.blank
  \/ ~r.body.wellformed
  \/ SelectNonEmpty(r.body.nodes) = <<>>

\* C5: get_fallback_captions signals NoTranscriptFound whenever the scrape
\* response is not 200, its body is empty, or the XML has no non-empty
\* text segment; it never returns the empty string.
C5_FallbackNeverEmpty ==
  (fb.kind # "none")
  => /\ fb.kind = "return" => fb.val # <<>>
     /\ (Posts = 0 /\ ScrapeUnusable(response))
          => (fb.kind = "raise" /\ fb.cls = "NoTranscriptFound")

\* a 2xx answer of the generation service without a usable text: not
\* JSON, or some step of candidates[0].content.parts[0].text is missing
IncompleteBody(r) ==
  /\ r.kind = "response"
  /\ r.status = 200
  /\ \/ ~r.body.isjson
     \/ r.body.val \notin
          {[candidates |-> <<[content |-> [parts |-> <<[text |-> t]>>]]>>] : t \in GenTexts}

\* C6: when the summarizer's 2xx response has a missing or malformed body,
\* get_summary_gemini returns "Summary failed." and does not raise.
C6_MalformedBodyGivesSentinel ==
  (sm.kind # "none" /\ IncompleteBody(response))
  => sm = Returned(<<"Summary failed.">>)

IsPlaceholder(v) == Len(v) >= 2 /\ v[1] = "Translation failed: "

\* the request of translate_text failed: no answer, an HTTP error status,
\* or a missing, malformed or incomplete body
TranslateFailed(r) ==
  r.kind = "error" \/ r.status >= 400 \/ IncompleteBody(r)

\* C7 as stated: translate_text never raises, posts exactly once, and on
\* every failure of the request returns a placeholder embedding the
\* failure reason, not the input text.
C7_PlaceholderOnEveryFailure ==
  (tr.kind # "none")
  => /\ tr.kind = "return"
     /\ Count(calls, "translate_post") = 1
     /\ (Posts = 0 /\ TranslateFailed(response)) => IsPlaceholder(tr.val)

\* a 2xx JSON answer in which a key of candidates[0].content.parts[0].text
\* is absent while no list on the way is empty
MissingKeyBody(r) ==
  /\ r.kind = "response"
  /\ r.status = 200
  /\ r.body.isjson
  /\ r.body.val \in {<<>>,
                     [candidates |-> << <<>> >>],
                     [candidates |-> <<[content |-> <<>>]>>],
                     [candidates |-> <<[content |-> [parts |-> << <<>> >>]]>>]}

\* C7 (amended): translate_text never raises and posts exactly once; on a
\* network failure, an HTTP error status, a non-JSON body or an empty
\* candidates or parts list it returns the placeholder "Translation
\* failed: <reason>"; on a 2xx JSON body that lacks the candidates,
\* content, parts or text key it returns the input text unchanged.
C7_PlaceholderOrInputText ==
  (tr.kind # "none")
  => /\ tr.kind = "return"
     /\ Count(calls, "translate_post") = 1
     /\ (Posts = 0 /\ TranslateFailed(response) /\ ~MissingKeyBody(response))
          => (IsPlaceholder(tr.val) /\ Len(tr.val) = 2)
     /\ (Posts = 0 /\ MissingKeyBody(response)) => tr.val = foreign_text

\* the translation request got an HTTP error status and the placeholder,
\* not the non-empty foreign text, came back
C7_Witness ==
  /\ tr.kind = "return"
  /\ Posts = 0
  /\ response.kind = "response"
  /\ response.status >= 400
  /\ foreign_text # <<>>
  /\ IsPlaceholder(tr.val)

RECURSIVE Sum(_)
Sum(q) == IF q = <<>> THEN 0 ELSE Head(q) + Sum(Tail(q))

\* C9: the sleeps of a get_summary_gemini call are 2, 4, 8, 16 cut to the
\* number of retries: one sleep per failed attempt that is retried, none
\* before the first attempt or after the last one, 30 units at most.
C9_BackoffSchedule ==
  /\ Len(sleeps) <= Retries - 1
  /\ \A i \in 1..Len(sleeps) : sleeps[i] = 2 ^ i
  /\ pc = "summarize" => Len(sleeps) = Posts
  /\ sm.kind # "none" => Len(sleeps) = Posts - 1
  /\ Posts = 0 => sleeps = <<>>
  /\ Sum(sleeps) <= 30

\* a call that slept 2, 4, 8 and 16 and then ended
C9_Witness ==
  /\ sleeps = <<2, 4, 8, 16>>
  /\ sm.kind # "none"
  /\ Posts = Retries

\* an upstream failure other than 'no transcript' and 'disabled' ended
\* get_transcript
UnexpectedUpstreamFailure ==
  /\ gt.kind = "raise"
  /\ failures # <<>>
  /\ Last(failures).step \in UpstreamSteps
  /\ Last(failures).cls \notin {"NoTranscriptFound", "TranscriptsDisabled"}

\* C8: an unexpected failure of an upstream transcript call, at any
\* upstream step, leaves get_transcript with a CouldNotRetrieveTranscript
\* whose message carries the cause and the video id.
C8_UnexpectedFailureIsTyped ==
  UnexpectedUpstreamFailure
  => /\ gt.cls = "CouldNotRetrieveTranscript"
     /\ Contains(gt.val, LibMsg(Last(failures).cls))
     /\ Contains(gt.val, video_id.val)

IsElevenCharId(v) ==
  Len(v) = IdLen /\ \A i \in 1..Len(v) : v[i] \in IdChars

\* C10: what get_video_id returns is absent or an id of exactly 11
\* characters of [a-zA-Z0-9_-], so get_transcript is only called with
\* such an id.
C10_VideoIdHasElevenChars ==
  /\ video_id.some => IsElevenCharId(video_id.val)
  /\ calls # <<>> => IsElevenCharId(video_id.val)

\* both English fetches failed with 'no transcript'
BothEnglishMissing ==
  /\ Len(failures) >= 2
  /\ failures[1] = [step |-> "fetch_en", cls |-> "NoTranscriptFound"]
  /\ failures[2] = [step |-> "fetch_aen", cls |-> "NoTranscriptFound"]

\* the listing was made, returned, and held a track that is not 'en'
ForeignTrackListed ==
  /\ Count(calls, "list") = 1
  /\ \A i \in 1..Len(failures) : failures[i].step # "list"
  /\ track # NoTrack

\* the listing was made, returned, and held no track that is not 'en'
OnlyEnglishListed ==
  /\ Count(calls, "list") = 1
  /\ \A i \in 1..Len(failures) : failures[i].step # "list"
  /\ track = NoTrack

ForeignFetchFailed ==
  \E i \in 1..Len(failures) : failures[i].step = "foreign_fetch"

RECURSIVE Offset(_, _)
\* where segment i starts in the space-joined text, less one
Offset(segs, i) == IF i = 1 THEN 0 ELSE Offset(segs, i - 1) + Len(segs[i - 1]) + 1

\* t is the segments of segs in order with one space between neighbours
IsSpaceJoined(t, segs) ==
  IF segs = <<>> THEN t = <<>>
  ELSE /\ Len(t) = Offset(segs, Len(segs)) + Len(segs[Len(segs)])
       /\ \A i \in 1..Len(segs) :
            /\ SubSeq(t, Offset(segs, i) + 1, Offset(segs, i) + Len(segs[i])) = segs[i]
            /\ i > 1 => t[Offset(segs, i)] = " "

\* the Translator was called once, with the joined text and the language
\* name of the chosen track, its output is what get_transcript returned,
\* and no scrape was made
TranslatedVerbatim ==
  /\ Count(calls, "translate_post") = 1
  /\ tr_args = <<[text |-> foreign_text, source_lang |-> track.language]>>
  /\ tr.kind = "return"
  /\ gt = Returned(tr.val)
  /\ Count(calls, "scrape") = 0

NothingCalled ==
  /\ calls = <<>>
  /\ gt.kind = "none" /\ fb.kind = "none" /\ tr.kind = "none" /\ sm.kind = "none"
  /\ tr_args = <<>>
  /\ sm_calls = 0

\* no video id can be extracted from u: urlparse rejects it, or it has
\* neither a 'v' value nor a short-link id
NoVideoId(u) == urlparse_raises(u) \/ ~get_video_id(u).some

\* C12: a request without url, or with an empty one, ends with 400 "No URL
\* provided."; one whose url yields no video id ends with 400 "Invalid
\* YouTube URL format."; either ends at once, with no call to the Fetcher,
\* the Translator or the Summarizer.
C12_BadUrlIs400 ==
  /\ (pc # "start" /\ url = <<>>)
       => (ended /\ status = 400
           /\ body = [key |-> "error", val |-> <<"No URL provided.">>])
  /\ (pc # "start" /\ url # <<>> /\ NoVideoId(url))
       => (ended /\ status = 400
           /\ body = [key |-> "error", val |-> <<"Invalid YouTube URL format.">>])
  /\ (status = 400) => NothingCalled

\* C13: when get_transcript returns the empty string the response is 404
\* "Transcript is empty." and the Summarizer is not invoked.
C13_EmptyTranscriptIs404 ==
  (gt = Returned(<<>>))
  => /\ ended
     /\ status = 404
     /\ body = [key |-> "error", val |-> <<"Transcript is empty.">>]
     /\ sm_calls = 0
     /\ Posts = 0
     /\ sm.kind = "none"

\* the preferred fetch returned no text and the request ended
C13_Witness ==
  /\ gt = Returned(<<>>)
  /\ won = "en"
  /\ ended

\* the request ended with a failure that is not of the transcript layer
NonTranscriptFailure ==
  \/ pc # "start" /\ url # <<>> /\ urlparse_raises(url)
  \/ sm.kind = "raise"
  \/ (gt.kind = "raise" /\ ~IsA(gt.cls, "CouldNotRetrieveTranscript"))

\* what the failure said
FailureDetail ==
  IF sm.kind = "raise" THEN sm.val
  ELSE IF gt.kind = "raise" THEN gt.val
  ELSE <<"ValueError">>

\* C14: every failure that is not a transcript-layer failure, every error
\* of the Summarizer included, ends the request with 500 and the one fixed
\* body, which holds nothing of the failure's detail.
C14_OtherFailureIsGeneric500 ==
  /\ NonTranscriptFailure
       => /\ ended
          /\ status = 500
          /\ body = [key |-> "error",
                     val |-> <<"Internal error occurred. Ensure video has English captions.">>]
          /\ \A i \in 1..Len(FailureDetail) : ~Contains(body.val, <<FailureDetail[i]>>)
  /\ (status = 500) => NonTranscriptFailure

\* the fields of the query of u, as written
QueryFields(u) == Split(urlparse_query(u), "&")

\* f is a field "v=..." of a query
IsVField(f) == Len(f) >= 2 /\ f[1] = "v" /\ f[2] = "="

\* the decoded value of a field "v=..."
VFieldValue(f) == unquote_plus(SubSeq(f, 3, Len(f)))

\* the url has the short-link literal followed by 11 id characters at i
ShortLinkAt(u, i) ==
  /\ i + Len(ShortLinkLit) + 11 - 1 <= Len(u)
  /\ \A k \in 1..Len(ShortLinkLit) : u[i + k - 1] = ShortLinkLit[k]
  /\ \A k \in 1..11 : u[i + Len(ShortLinkLit) + k - 1] \in IdChars

\* r is what the short-link pattern gives for u: the 11 characters after
\* the leftmost match, failure without a match
IsShortLinkResult(u, r) ==
  IF \E i \in 1..Len(u) : ShortLinkAt(u, i)
  THEN \E i \in 1..Len(u) :
         /\ ShortLinkAt(u, i)
         /\ \A j \in 1..(i - 1) : ~ShortLinkAt(u, j)
         /\ r.some
         /\ r.val = SubSeq(u, i + Len(ShortLinkLit), i + Len(ShortLinkLit) + 10)
  ELSE ~r.some

\* r is the value of the first field of u that is a 'v' field
IsFirstV(u, r) ==
  \E i \in 1..Len(QueryFields(u)) :
    /\ IsVField(QueryFields(u)[i])
    /\ \A j \in 1..(i - 1) : ~IsVField(QueryFields(u)[j])
    /\ r.some
    /\ r.val = VFieldValue(QueryFields(u)[i])

\* C15: the result is the first value of the 'v' parameter
\* whenever the url has one, else the id of the short-link pattern if the
\* url matches it, else failure.
C15_FirstVThenShortLink ==
  (pc # "start" /\ url # <<>>)
  => IF \E i \in 1..Len(QueryFields(url)) : IsVField(QueryFields(url)[i])
     THEN IsFirstV(url, video_id)
     ELSE IsShortLinkResult(url, video_id)


\* get_transcript returned a non-empty string, the Summarizer was invoked
\* on it, and once the request has ended its status is the Summarizer's
\* outcome: 200 if it returned, 500 if it raised
SummarizerDecides ==
  /\ gt.kind = "return"
  /\ gt.val # <<>>
  /\ sm_calls = 1
  /\ pc \in {"summarize", "done"}
  /\ ended => /\ Posts >= 1
              /\ sm.kind # "none"
              /\ (sm.kind = "return") => (status = 200)
              /\ (sm.kind = "raise") => (status = 500)

\* C16 as stated: when the foreign-track path is taken and the translation
\* request fails, get_transcript still returns a non-empty string, the
\* Summarizer is invoked on it and its outcome alone decides the status.
C16_TranslatorFailureNeverEndsRequest ==
  (tr.kind # "none" /\ tr_fail # "none") => SummarizerDecides

\* C16 (amended): when the translation request fails with a network
\* failure, an HTTP error status, a non-JSON body or an empty candidates or
\* parts list, get_transcript returns the non-empty placeholder, the
\* Summarizer is invoked on it and its outcome alone decides the status;
\* when a 2xx JSON body lacks a key, get_transcript returns the foreign
\* text unchanged: the Summarizer decides if that text is not empty, and
\* the request ends with 404 "Transcript is empty." if it is.
C16_TranslatorFailureDegrades ==
  /\ (tr.kind # "none" /\ tr_fail \in {"network", "http", "notjson", "emptylist"})
       => (SummarizerDecides /\ IsPlaceholder(gt.val))
  /\ (tr.kind # "none" /\ tr_fail = "missingkey")
       => /\ gt = Returned(foreign_text)
          /\ foreign_text # <<>> => SummarizerDecides
          /\ foreign_text = <<>>
               => (ended /\ status = 404 /\ sm_calls = 0
                   /\ body = [key |-> "error", val |-> <<"Transcript is empty.">>])

\* the translation request got no answer, and the request still ended
\* with 200 and a summary of the placeholder
C16_Witness ==
  /\ tr_fail = "network"
  /\ gt = Returned(<<"Translation failed: ", "ConnectionError">>)
  /\ sm.kind = "return"
  /\ ended
  /\ status = 200

\* C17: a 200 response implies a non-empty url, an extracted video id, a
\* non-empty transcript returned by get_transcript, and exactly one call of
\* get_summary_gemini, which returned; the Summarizer is never invoked
\* before get_transcript has returned.
C17_OkOnlyAfterFullPipeline ==
  /\ (status = 200)
       => /\ ended
          /\ url # <<>>
          /\ video_id.some
          /\ video_id.val # <<>>
          /\ gt.kind = "return"
          /\ gt.val # <<>>
          /\ sm_calls = 1
          /\ sm.kind = "return"
          /\ body = [key |-> "summary", val |-> sm.val]
  /\ (sm_calls > 0 \/ Posts > 0 \/ pc = "summarize" \/ sm.kind # "none")
       => (gt.kind = "return" /\ sm_calls = 1)

\* a request answered 200 after the scrape gave the transcript and the
\* Summarizer succeeded on its third attempt
C17_Witness ==
  /\ status = 200
  /\ won = "scrape"
  /\ Posts = 3
  /\ sm.kind = "return"

\* C18: get_summary_gemini never returns "Summary generation failed.":
\* it returns only on a 2xx answer inside the loop, with the service's
\* text or "Summary failed.", and after the last attempt it has returned
\* or raised.
C18_FinalReturnUnreachable ==
  /\ (sm.kind = "return")
       => /\ sm.val # <<"Summary generation failed.">>
          /\ response.kind # "error" /\ response.status < 400
          /\ attempt < Retries
          /\ sm.val \in (GenTexts \cup {<<"Summary failed.">>})
  /\ (Posts = Retries) => (sm.kind # "none")
  /\ attempt < Retries

\* the last attempt was answered with a retryable status and the call
\* raised instead of leaving the loop
C18_Witness ==
  /\ attempt = Retries - 1
  /\ Posts = Retries
  /\ response.status = 503
  /\ sm = Raised("Exception", <<"Gemini API error: ", "HTTPError">>)

\* no exception left summary_api
Handled == body.key # "unhandled"

\* the steps of the fallback chain
ChainSteps == {"fetch_en", "fetch_aen", "list", "foreign_fetch", "scrape",
               "translate_post"}

\* C19: every request eventually ends with exactly one response, whose
\* status is 200, 400, 404 or 500, after at most one pass through the
\* fallback chain and at most 5 Summarizer attempts, and no failure of a
\* step leaves summary_api unhandled.
C19_TerminatesHandled ==
  /\ <>ended
  /\ [](ended => status \in {200, 400, 404, 500})
  /\ [](\A c \in ChainSteps : Count(calls, c) <= 1)
  /\ [](Posts <= 5)
  /\ [][ended => UNCHANGED <<status, body>>]_vars
  /\ []Handled

====
